---- MODULE Spec2Model ----
(***************************************************************************)
(* A model of src/models.py: the NearEarthObject and CloseApproach record  *)
(* classes, their keyword constructors, append, serialize and the derived  *)
(* properties.                                                             *)
(*                                                                         *)
(* Python strings are sequences of one-character strings, so that          *)
(* str.lower(), float() and the f-strings are computed character by        *)
(* character. Every Python value is a record [t |-> type name, v |-> ...]. *)
(* An instance is its attribute dictionary: a function whose DOMAIN is the *)
(* set of attributes that have been assigned; reading an attribute outside *)
(* the domain is an AttributeError.                                        *)
(***************************************************************************)
EXTENDS Integers, Sequences, FiniteSets, TLC

VARIABLES
    neos,      \* heap: the NearEarthObject instances, by identity 1..Len(neos)
    cas,       \* heap: the CloseApproach instances, by identity 1..Len(cas)
    calls,     \* history: calls[i] is the sequence of arguments append was called with on neos[i]
    cls,       \* constructor specification: the class under construction
    info1,     \* constructor specification: the keyword mapping of the first construction
    info2,     \* constructor specification: the keyword mapping of the second construction
    inst1,     \* constructor specification: outcome of cls(**info1)
    inst2,     \* constructor specification: outcome of cls(**info2)
    ret        \* constructor specification: outcome of the last operation called on inst1

vars == <<neos, cas, calls, cls, info1, info2, inst1, inst2, ret>>

linkVars == <<neos, cas, calls>>
ctorVars == <<cls, info1, info2, inst1, inst2, ret>>

----------------------------------------------------------------------------
(* Bounds *)

MaxObjects == 3
MaxCalls == 2
MaxExtra == 1

----------------------------------------------------------------------------
(* Python values *)

Str(s) == [t |-> "str", v |-> s]
None == [t |-> "NoneType", v |-> <<>>]
IntV(n) == [t |-> "int", v |-> <<n>>]
Bool(b) == [t |-> "bool", v |-> <<b>>]
\* a finite float m * 10^(-e), normalised so that e = 0 or m is no multiple of 10
Float(m, e) == [t |-> "float", v |-> <<m, e>>]
NaN == [t |-> "float", v |-> <<>>]
List(s) == [t |-> "list", v |-> s]
Dict(f) == [t |-> "dict", v |-> f]
Datetime(y, mo, d, h, mi) == [t |-> "datetime", v |-> <<y, mo, d, h, mi>>]
NeoRef(i) == [t |-> "NearEarthObject", v |-> <<i>>]
CaRef(j) == [t |-> "CloseApproach", v |-> <<j>>]

\* the outcome of a call: a returned value or a raised exception
Return(x) == [raised |-> "", val |-> x]
Raise(e) == [raised |-> e, val |-> None]
Pending == [raised |-> "pending", val |-> None]
Returned(r) == r.raised = ""

\* an instance's attribute dictionary
NoAttrs == [a \in {} |-> None]
SetAttr(self, a, x) == [b \in DOMAIN self \cup {a} |-> IF b = a THEN x ELSE self[b]]
HasAttr(self, a) == a \in DOMAIN self

----------------------------------------------------------------------------
(* str.lower(), str(), len(), float() *)

UpperChars == <<"A","B","C","D","E","F","G","H","I","J","K","L","M",
                "N","O","P","Q","R","S","T","U","V","W","X","Y","Z">>
LowerChars == <<"a","b","c","d","e","f","g","h","i","j","k","l","m",
                "n","o","p","q","r","s","t","u","v","w","x","y","z">>
Digits == <<"0","1","2","3","4","5","6","7","8","9">>

LowerChar(c) ==
    IF \E k \in 1..Len(UpperChars) : UpperChars[k] = c
    THEN LowerChars[CHOOSE k \in 1..Len(UpperChars) : UpperChars[k] = c]
    ELSE c

lower(s) == [k \in 1..Len(s) |-> LowerChar(s[k])]

IsDigit(c) == \E k \in 1..Len(Digits) : Digits[k] = c
DigitVal(c) == (CHOOSE k \in 1..Len(Digits) : Digits[k] = c) - 1

RECURSIVE NatToStr(_)
NatToStr(n) == IF n < 10 THEN <<Digits[n + 1]>> ELSE NatToStr(n \div 10) \o <<Digits[(n % 10) + 1]>>

\* str(value) for the value types of the model; it never raises
PyStr(x) ==
    CASE x.t = "str" -> x.v
      [] x.t = "NoneType" -> <<"N","o","n","e">>
      [] x.t = "int" -> IF x.v[1] < 0 THEN <<"-">> \o NatToStr(0 - x.v[1]) ELSE NatToStr(x.v[1])
      [] x.t = "bool" -> IF x.v[1] THEN <<"T","r","u","e">> ELSE <<"F","a","l","s","e">>

\* len(value): defined for str and list, a TypeError for None, int, bool, float
HasLen(x) == x.t \in {"str", "list"}
PyLen(x) == Len(x.v)

RECURSIVE DigitsVal(_)
DigitsVal(s) == IF s = <<>> THEN 0 ELSE DigitsVal(SubSeq(s, 1, Len(s) - 1)) * 10 + DigitVal(s[Len(s)])

RECURSIVE NormFloat(_, _)
NormFloat(m, e) == IF e > 0 /\ m % 10 = 0 THEN NormFloat(m \div 10, e - 1) ELSE Float(m, e)

IsSpace(c) == c \in {" ", "\t", "\n"}

RECURSIVE Strip(_)
Strip(s) ==
    IF s = <<>> THEN s
    ELSE IF IsSpace(s[1]) THEN Strip(Tail(s))
    ELSE IF IsSpace(s[Len(s)]) THEN Strip(SubSeq(s, 1, Len(s) - 1))
    ELSE s

\* the unsigned decimal literals digits[.digits] and .digits
DotsAt(s) == {k \in 1..Len(s) : s[k] = "."}
IsDecimal(s) ==
    /\ \A k \in 1..Len(s) : IsDigit(s[k]) \/ s[k] = "."
    /\ Cardinality(DotsAt(s)) <= 1
    /\ \E k \in 1..Len(s) : IsDigit(s[k])
DecimalVal(s) ==
    LET ds == SelectSeq(s, IsDigit)
        e == IF DotsAt(s) = {} THEN 0 ELSE Len(s) - (CHOOSE k \in DotsAt(s) : TRUE)
    IN NormFloat(DigitsVal(ds), e)

\* float(str): surrounding whitespace is stripped, an optional sign, then a decimal
\* literal or nan; anything else is a ValueError. (Exponents, inf and underscores
\* are outside the input alphabet of the model.)
ParseFloat(s0) ==
    LET s == Strip(s0)
        signed == s # <<>> /\ s[1] \in {"+", "-"}
        body == IF signed THEN Tail(s) ELSE s
        neg == signed /\ s[1] = "-"
    IN IF lower(body) = <<"n","a","n">> THEN Return(NaN)
       ELSE IF IsDecimal(body)
            THEN LET f == DecimalVal(body)
                 IN Return(IF neg THEN Float(0 - f.v[1], f.v[2]) ELSE f)
            ELSE Raise("ValueError")

\* float(value)
PyFloat(x) ==
    CASE x.t = "str" -> ParseFloat(x.v)
      [] x.t = "int" -> Return(Float(x.v[1], 0))
      [] x.t = "bool" -> Return(Float(IF x.v[1] THEN 1 ELSE 0, 0))
      [] x.t = "float" -> Return(x)
      [] OTHER -> Raise("TypeError")

\* format(value, "") as an f-string replacement field applies it
Pow10(e) == IF e = 0 THEN 1 ELSE IF e = 1 THEN 10 ELSE IF e = 2 THEN 100 ELSE 1000
RECURSIVE ZeroPad(_, _)
ZeroPad(s, w) == IF Len(s) >= w THEN s ELSE ZeroPad(<<"0">> \o s, w)

\* repr(float) for the floats of the model (at most three decimals, no exponent form)
FloatStr(x) ==
    IF x = NaN THEN <<"n","a","n">>
    ELSE LET m == x.v[1]
             e == x.v[2]
             a == IF m < 0 THEN 0 - m ELSE m
             whole == NatToStr(a \div Pow10(e))
             frac == IF e = 0 THEN <<"0">> ELSE ZeroPad(NatToStr(a % Pow10(e)), e)
         IN (IF m < 0 THEN <<"-">> ELSE <<>>) \o whole \o <<".">> \o frac

Format(x) == IF x.t = "float" THEN FloatStr(x) ELSE PyStr(x)

----------------------------------------------------------------------------
(* helpers.cd_to_datetime and helpers.datetime_to_str *)

MonthNames == << <<"J","a","n">>, <<"F","e","b">>, <<"M","a","r">>, <<"A","p","r">>,
                 <<"M","a","y">>, <<"J","u","n">>, <<"J","u","l">>, <<"A","u","g">>,
                 <<"S","e","p">>, <<"O","c","t">>, <<"N","o","v">>, <<"D","e","c">> >>

AllDigits(s) == \A k \in 1..Len(s) : IsDigit(s[k])

\* strptime(s, "%Y-%b-%d %H:%M") on zero-padded fields; a ValueError otherwise
cd_to_datetime(s) ==
    IF /\ Len(s) = 17
       /\ s[5] = "-" /\ s[9] = "-" /\ s[12] = " " /\ s[15] = ":"
       /\ AllDigits(SubSeq(s, 1, 4)) /\ AllDigits(SubSeq(s, 10, 11))
       /\ AllDigits(SubSeq(s, 13, 14)) /\ AllDigits(SubSeq(s, 16, 17))
       /\ \E k \in 1..12 : lower(MonthNames[k]) = lower(SubSeq(s, 6, 8))
       /\ DigitsVal(SubSeq(s, 10, 11)) \in 1..28
       /\ DigitsVal(SubSeq(s, 13, 14)) \in 0..23
       /\ DigitsVal(SubSeq(s, 16, 17)) \in 0..59
       /\ DigitsVal(SubSeq(s, 1, 4)) >= 1
    THEN Return(Datetime(DigitsVal(SubSeq(s, 1, 4)),
                         CHOOSE k \in 1..12 : lower(MonthNames[k]) = lower(SubSeq(s, 6, 8)),
                         DigitsVal(SubSeq(s, 10, 11)),
                         DigitsVal(SubSeq(s, 13, 14)),
                         DigitsVal(SubSeq(s, 16, 17))))
    ELSE Raise("ValueError")

\* datetime.strftime(dt, "%Y-%m-%d %H:%M"); a TypeError when dt is no datetime
datetime_to_str(dt) ==
    IF dt.t # "datetime" THEN Raise("TypeError")
    ELSE Return(Str(ZeroPad(NatToStr(dt.v[1]), 4) \o <<"-">> \o ZeroPad(NatToStr(dt.v[2]), 2)
                    \o <<"-">> \o ZeroPad(NatToStr(dt.v[3]), 2) \o <<" ">>
                    \o ZeroPad(NatToStr(dt.v[4]), 2) \o <<":">> \o ZeroPad(NatToStr(dt.v[5]), 2)))

----------------------------------------------------------------------------
(* class NearEarthObject *)

\* the loop body with the keys compared as given, without lower()
NeoItem_case_sensitive(self, key, value) ==
    CASE key = <<"p","d","e","s">> ->
           Return(SetAttr(self, "designation", Str(PyStr(value))))
      [] key = <<"n","a","m","e">> ->
           IF ~HasLen(value) THEN Raise("TypeError")
           ELSE IF PyLen(value) # 0
                THEN Return(SetAttr(self, "name", Str(PyStr(value))))
                ELSE Return(SetAttr(self, "name", None))
      [] key = <<"d","i","a","m","e","t","e","r">> ->
           IF ~HasLen(value) THEN Raise("TypeError")
           ELSE IF PyLen(value) # 0
                THEN LET f == PyFloat(value)
                     IN IF Returned(f) THEN Return(SetAttr(self, "diameter", f.val))
                        ELSE IF f.raised = "ValueError" THEN Return(self)
                        ELSE f
                ELSE Return(SetAttr(self, "diameter", NaN))
      [] key = <<"p","h","a">> ->
           Return(SetAttr(self, "hazardous", Bool(lower(PyStr(value)) = <<"y">>)))
      [] OTHER -> Return(self)

\* one iteration of the loop over info.items()
NeoItem(self, key, value) ==
    LET k == lower(key)
    IN CASE k = <<"p","d","e","s">> ->
              Return(SetAttr(self, "designation", Str(PyStr(value))))
         [] k = <<"n","a","m","e">> ->
              IF ~HasLen(value) THEN Raise("TypeError")
              ELSE IF PyLen(value) # 0
                   THEN Return(SetAttr(self, "name", Str(PyStr(value))))
                   ELSE Return(SetAttr(self, "name", None))
         [] k = <<"d","i","a","m","e","t","e","r">> ->
              IF ~HasLen(value) THEN Raise("TypeError")
              ELSE IF PyLen(value) # 0
                   THEN LET f == PyFloat(value)
                        IN IF Returned(f) THEN Return(SetAttr(self, "diameter", f.val))
                           ELSE IF f.raised = "ValueError" THEN Return(self)
                           ELSE f
                   ELSE Return(SetAttr(self, "diameter", NaN))
         [] k = <<"p","h","a">> ->
              Return(SetAttr(self, "hazardous", Bool(lower(PyStr(value)) = <<"y">>)))
         [] OTHER -> Return(self)

RECURSIVE NeoItems(_, _)
NeoItems(self, items) ==
    IF items = <<>> THEN Return(self)
    ELSE LET r == NeoItem(self, items[1][1], items[1][2])
         IN IF Returned(r) THEN NeoItems(r.val, Tail(items)) ELSE r

\* NearEarthObject(**info): the new instance, or the exception that left the loop
NearEarthObject__init__(info) ==
    LET r == NeoItems(NoAttrs, info)
    IN IF Returned(r) THEN Return(SetAttr(r.val, "approaches", List(<<>>))) ELSE r

\* append without the type test
append_unchecked(h, i, approach) ==
    [h EXCEPT !.neos[i] = SetAttr(@, "approaches", List(Append(@["approaches"].v, approach)))]

\* append that inserts at the front
append_front(h, i, approach) ==
    IF approach.t = "CloseApproach"
    THEN [h EXCEPT !.neos[i] =
             SetAttr(@, "approaches", List(<<approach>> \o @["approaches"].v))]
    ELSE h

\* append with the type test inverted
append_inverted(h, i, approach) ==
    IF approach.t # "CloseApproach"
    THEN [h EXCEPT !.neos[i] =
             SetAttr(@, "approaches", List(Append(@["approaches"].v, approach)))]
    ELSE h

\* append that also sets the back reference of the approach
append_linking(h, i, approach) ==
    IF approach.t = "CloseApproach"
    THEN [h EXCEPT !.neos[i] =
             SetAttr(@, "approaches", List(Append(@["approaches"].v, approach))),
                   !.cas[approach.v[1]] = SetAttr(@, "neo", NeoRef(i))]
    ELSE h

\* neos[i].append(approach) on the heap h = [neos, cas]: the heap afterwards
append(h, i, approach) ==
    IF approach.t = "CloseApproach"
    THEN [h EXCEPT !.neos[i] =
             SetAttr(@, "approaches", List(Append(@["approaches"].v, approach)))]
    ELSE h

NeoSerialize(self) ==
    IF \E a \in {"designation", "name", "diameter", "hazardous"} : ~HasAttr(self, a)
    THEN Raise("AttributeError")
    ELSE Return(Dict([designation |-> self["designation"],
                      name |-> self["name"],
                      diameter_km |-> self["diameter"],
                      potentially_hazardous |-> self["hazardous"]]))

\* fullname without the test for a missing name
fullname_always_named(self) ==
    IF ~HasAttr(self, "name") THEN Raise("AttributeError")
    ELSE IF ~HasAttr(self, "designation") THEN Raise("AttributeError")
    ELSE Return(Str(<<"'">> \o Format(self["designation"]) \o <<" ", "(">>
                    \o Format(self["name"]) \o <<")", "'">>))

fullname(self) ==
    IF ~HasAttr(self, "name") THEN Raise("AttributeError")
    ELSE IF ~HasAttr(self, "designation") THEN Raise("AttributeError")
    ELSE IF self["name"] # None
         THEN Return(Str(<<"'">> \o Format(self["designation"]) \o <<" ", "(">>
                         \o Format(self["name"]) \o <<")", "'">>))
         ELSE Return(Str(Format(self["designation"])))

NeoStr(self) ==
    IF \E a \in {"hazardous", "name", "diameter"} : ~HasAttr(self, a)
    THEN Raise("AttributeError")
    ELSE Return(Str(<<"N","E","O"," ">> \o Format(self["name"])
                    \o <<" ","h","a","s"," ","a"," ","d","i","a","m","e","t","e","r"," ","o","f"," ">>
                    \o Format(self["diameter"]) \o <<" ","k","m"," ","a","n","d"," ","i","s"," ">>
                    \o (IF self["hazardous"].v[1] THEN <<>> ELSE <<"n","o","t"," ">>)
                    \o <<"p","o","t","e","n","t","i","a","l","l","y"," ",
                         "h","a","z","a","r","d","o","u","s",".">>))

----------------------------------------------------------------------------
(* class CloseApproach *)

\* try: self.<attr> = float(value) / except ValueError: print(...)
SetFloat(self, attr, value) ==
    LET f == PyFloat(value)
    IN IF Returned(f) THEN Return(SetAttr(self, attr, f.val))
       ELSE IF f.raised = "ValueError" THEN Return(self)
       ELSE f

CaItem(self, key, value) ==
    LET k == lower(key)
    IN CASE k = <<"d","e","s">> ->
              Return(SetAttr(self, "_designation", Str(PyStr(value))))
         [] k = <<"c","d">> ->
              LET d == cd_to_datetime(PyStr(value))
              IN IF Returned(d) THEN Return(SetAttr(self, "time", d.val))
                 ELSE Return(SetAttr(self, "time", Str(PyStr(value))))
         [] k = <<"d","i","s","t">> -> SetFloat(self, "distance", value)
         [] k = <<"v","_","r","e","l">> -> SetFloat(self, "velocity", value)
         [] OTHER -> Return(self)

RECURSIVE CaItems(_, _)
CaItems(self, items) ==
    IF items = <<>> THEN Return(self)
    ELSE LET r == CaItem(self, items[1][1], items[1][2])
         IN IF Returned(r) THEN CaItems(r.val, Tail(items)) ELSE r

\* CloseApproach(**info)
CloseApproach__init__(info) ==
    LET r == CaItems(NoAttrs, info)
    IN IF Returned(r) THEN Return(SetAttr(r.val, "neo", None)) ELSE r

CaSerialize(self) ==
    IF ~HasAttr(self, "time") THEN Raise("AttributeError")
    ELSE LET s == datetime_to_str(self["time"])
         IN IF ~Returned(s) THEN s
            ELSE IF ~HasAttr(self, "distance") \/ ~HasAttr(self, "velocity")
                 THEN Raise("AttributeError")
                 ELSE Return(Dict([datetime_utc |-> s.val,
                                   distance_au |-> self["distance"],
                                   velocity_km_s |-> self["velocity"]]))

designation(self) ==
    IF HasAttr(self, "_designation") THEN Return(self["_designation"]) ELSE Raise("AttributeError")

time_str(self) ==
    IF HasAttr(self, "time") THEN datetime_to_str(self["time"]) ELSE Raise("AttributeError")

GetAttr(self, a) == IF HasAttr(self, a) THEN Return(self[a]) ELSE Raise("AttributeError")

----------------------------------------------------------------------------
(* Input values *)

S433 == <<"4","3","3">>
S2015AB == <<"2","0","1","5"," ","A","B">>
SEros == <<"E","r","o","s">>
SCd == <<"2","0","2","0","-","J","a","n","-","0","1"," ","1","2",":","3","0">>

Kpdes == <<"p","d","e","s">>
Kname == <<"n","a","m","e">>
Kdiameter == <<"d","i","a","m","e","t","e","r">>
Kpha == <<"p","h","a">>
Kdes == <<"d","e","s">>
Kcd == <<"c","d">>
Kdist == <<"d","i","s","t">>
Kv_rel == <<"v","_","r","e","l">>
Kneo == <<"n","e","o">>
Kapproaches == <<"a","p","p","r","o","a","c","h","e","s">>

----------------------------------------------------------------------------
(* Linking specification: a caller constructs records, appends, assigns neo *)

\* the keyword mappings the caller constructs records from
LinkNeoInfos ==
    { << <<Kpdes, Str(S433)>>, <<Kname, Str(SEros)>>, <<Kdiameter, Str(<<>>)>>, <<Kpha, Str(<<"Y">>)>> >>,
      << <<Kpdes, Str(S2015AB)>>, <<Kname, Str(<<>>)>>, <<Kapproaches, Str(SEros)>> >>,
      << <<Kpdes, Str(S433)>>, <<Kname, None>> >> }

LinkCaInfos ==
    { << <<Kdes, Str(S433)>>, <<Kcd, Str(SCd)>>, <<Kdist, Str(<<"0",".","5">>)>>, <<Kv_rel, Str(<<"7">>)>> >>,
      << <<Kcd, Str(SCd)>>, <<Kneo, Str(S433)>> >>,
      << <<Kdes, Str(S433)>>, <<Kdist, None>> >> }

NeoIds == 1..Len(neos)
CaIds == 1..Len(cas)

IsCloseApproach(x) == x.t = "CloseApproach"

\* what a caller may pass to append: the CloseApproach instances, and values of
\* other types (None, and the first NearEarthObject; the type test of append reads
\* nothing but the type, so a string or a number takes the path of None)
AppendArgs == {CaRef(j) : j \in CaIds} \cup {None, NeoRef(1)}

\* what a caller may assign to neo
NeoValues == {NeoRef(i) : i \in NeoIds} \cup {None}

RECURSIVE SumLen(_)
SumLen(ss) == IF ss = <<>> THEN 0 ELSE Len(Head(ss)) + SumLen(Tail(ss))

approaches(i) == neos[i]["approaches"].v

InitLink ==
    /\ neos = <<>>
    /\ cas = <<>>
    /\ calls = <<>>

\* NearEarthObject(**info); an exception leaves no instance
NewNeo(info) ==
    /\ Len(neos) + Len(cas) < MaxObjects
    /\ LET r == NearEarthObject__init__(info)
       IN IF Returned(r)
          THEN neos' = Append(neos, r.val) /\ calls' = Append(calls, <<>>)
          ELSE UNCHANGED <<neos, calls>>
    /\ UNCHANGED <<cas, ctorVars>>

\* CloseApproach(**info)
NewCa(info) ==
    /\ Len(neos) + Len(cas) < MaxObjects
    /\ LET r == CloseApproach__init__(info)
       IN IF Returned(r) THEN cas' = Append(cas, r.val) ELSE UNCHANGED cas
    /\ UNCHANGED <<neos, calls, ctorVars>>

\* neos[i].append(x)
DoAppend(i, x) ==
    /\ SumLen(calls) < MaxCalls
    /\ calls' = [calls EXCEPT ![i] = Append(@, x)]
    /\ LET h == append([neos |-> neos, cas |-> cas], i, x)
       IN neos' = h.neos /\ cas' = h.cas
    /\ UNCHANGED ctorVars

\* cas[j].neo = x, the caller's assignment
SetNeo(j, x) ==
    /\ cas' = [cas EXCEPT ![j] = SetAttr(@, "neo", x)]
    /\ UNCHANGED <<neos, calls, ctorVars>>

\* the linking step of the caller: neos[i].append(cas[j]); cas[j].neo = neos[i]
Link(i, j) ==
    /\ SumLen(calls) < MaxCalls
    /\ calls' = [calls EXCEPT ![i] = Append(@, CaRef(j))]
    /\ LET h == append([neos |-> neos, cas |-> cas], i, CaRef(j))
       IN /\ neos' = h.neos
          /\ cas' = [h.cas EXCEPT ![j] = SetAttr(@, "neo", NeoRef(i))]
    /\ UNCHANGED ctorVars

\* serialize(), fullname and __str__() of neos[i] assign nothing
ReadNeo(i) == UNCHANGED vars

\* serialize(), designation, time_str and __str__() of cas[j] assign nothing
ReadCa(j) == UNCHANGED vars

Next ==
    \/ \E info \in LinkNeoInfos : NewNeo(info)
    \/ \E info \in LinkCaInfos : NewCa(info)
    \/ \E i \in NeoIds : \E x \in AppendArgs : DoAppend(i, x)
    \/ \E j \in CaIds : \E x \in NeoValues : SetNeo(j, x)
    \/ \E i \in NeoIds : \E j \in CaIds : Link(i, j)
    \/ \E i \in NeoIds : ReadNeo(i)
    \/ \E j \in CaIds : ReadCa(j)

CtorIdle ==
    /\ cls = "" /\ info1 = <<>> /\ info2 = <<>>
    /\ inst1 = Pending /\ inst2 = Pending /\ ret = [op |-> "", out |-> Pending]

Init == InitLink /\ CtorIdle
Spec == Init /\ [][Next]_vars

----------------------------------------------------------------------------
(* Constructor specification: one class, one keyword mapping, a second mapping *)
(* that differs from it in key case and unrecognized keys, and the reading     *)
(* operations on the first instance                                            *)

Absent == [t |-> "absent", v |-> <<>>]

NeoFields == {Kpdes, Kname, Kdiameter, Kpha}
CaFields == {Kdes, Kcd, Kdist, Kv_rel}
Fields(c) == IF c = "NearEarthObject" THEN NeoFields ELSE CaFields

S034 == <<"0",".","3","4">>
S05 == <<"0",".","5">>
S7 == <<"7">>
Sabc == <<"a","b","c">>

\* the raw values a row may carry for each field
FieldValues(k) ==
    CASE k = Kpdes -> {Str(S433), Str(S2015AB)}
      [] k = Kname -> {Str(SEros), Str(<<>>), None}
      [] k = Kdiameter -> {Str(S034), Str(<<>>), Str(Sabc)}
      [] k = Kpha -> {Str(<<"Y">>), Str(<<"y">>), Str(<<"N">>), Str(<<>>)}
      [] k = Kdes -> {Str(S433), IntV(433)}
      [] k = Kcd -> {Str(SCd), Str(<<>>)}
      [] k = Kdist -> {Str(S05), Str(Sabc), None}
      [] k = Kv_rel -> {Str(S7), Str(<<>>)}

Options(k) == FieldValues(k) \cup {Absent}
Item(k, x) == IF x = Absent THEN <<>> ELSE << <<k, x>> >>

\* the keyword mappings: each field of the class absent or carrying one of its values
Infos(c) ==
    IF c = "NearEarthObject"
    THEN {Item(Kpdes, a) \o Item(Kname, b) \o Item(Kdiameter, d) \o Item(Kpha, e) :
             a \in Options(Kpdes), b \in Options(Kname), d \in Options(Kdiameter), e \in Options(Kpha)}
    ELSE {Item(Kdes, a) \o Item(Kcd, b) \o Item(Kdist, d) \o Item(Kv_rel, e) :
             a \in Options(Kdes), b \in Options(Kcd), d \in Options(Kdist), e \in Options(Kv_rel)}

UpperChar(c) ==
    IF \E k \in 1..Len(LowerChars) : LowerChars[k] = c
    THEN UpperChars[CHOOSE k \in 1..Len(LowerChars) : LowerChars[k] = c]
    ELSE c
upper(s) == [k \in 1..Len(s) |-> UpperChar(s[k])]

\* info with the keys at the positions of mask in upper case
Recase(info, mask) ==
    [k \in 1..Len(info) |-> IF k \in mask THEN <<upper(info[k][1]), info[k][2]>> ELSE info[k]]

ExtraItems == {<<k, Str(SEros)>> : k \in {Kneo, Kapproaches}}

\* info with up to n unrecognized items added in front or at the end, keys distinct
RECURSIVE WithExtras(_, _)
WithExtras(info, n) ==
    IF n = 0 THEN {info}
    ELSE LET S == WithExtras(info, n - 1)
             New(m) == {x \in ExtraItems : \A k \in 1..Len(m) : m[k][1] # x[1]}
         IN S \cup UNION {{<<x>> \o m : x \in New(m)} \cup {m \o <<x>> : x \in New(m)} : m \in S}

Variants(info) ==
    UNION {WithExtras(Recase(info, mask), MaxExtra) : mask \in SUBSET (1..Len(info))}

Construct(c, info) ==
    IF c = "NearEarthObject" THEN NearEarthObject__init__(info) ELSE CloseApproach__init__(info)

NoResult == [op |-> "", out |-> Pending]
Result(op, out) == [op |-> op, out |-> out]

InitCtor ==
    /\ InitLink
    /\ cls \in {"NearEarthObject", "CloseApproach"}
    /\ info1 \in Infos(cls)
    /\ info2 = <<>>
    /\ inst1 = Pending /\ inst2 = Pending
    /\ ret = NoResult

\* inst1 = cls(**info1)
ConstructFirst ==
    /\ inst1 = Pending
    /\ inst1' = Construct(cls, info1)
    /\ UNCHANGED <<linkVars, cls, info1, info2, inst2, ret>>

\* inst2 = cls(**info2)
ConstructSecond ==
    /\ inst1 # Pending /\ inst2 = Pending
    /\ \E v \in Variants(info1) : info2' = v /\ inst2' = Construct(cls, v)
    /\ UNCHANGED <<linkVars, cls, info1, inst1, ret>>

\* a reading operation on inst1: the instance is left as it is
Read(c, op, out) ==
    /\ cls = c /\ Returned(inst1)
    /\ ret' = Result(op, out)
    /\ UNCHANGED <<linkVars, cls, info1, info2, inst1, inst2>>

CallNeoSerialize == Read("NearEarthObject", "serialize", NeoSerialize(inst1.val))
CallFullname == Read("NearEarthObject", "fullname", fullname(inst1.val))
CallNeoStr == Read("NearEarthObject", "__str__", NeoStr(inst1.val))
CallCaSerialize == Read("CloseApproach", "serialize", CaSerialize(inst1.val))
CallDesignation == Read("CloseApproach", "designation", designation(inst1.val))
CallTimeStr == Read("CloseApproach", "time_str", time_str(inst1.val))

NextCtor ==
    \/ ConstructFirst
    \/ ConstructSecond
    \/ CallNeoSerialize
    \/ CallFullname
    \/ CallNeoStr
    \/ CallCaSerialize
    \/ CallDesignation
    \/ CallTimeStr

SpecCtor == InitCtor /\ [][NextCtor]_vars

----------------------------------------------------------------------------
(* Claims about append and linking, under Spec *)

IsPrefix(s, t) == Len(s) <= Len(t) /\ SubSeq(t, 1, Len(s)) = s

Rejected(i) == SelectSeq(calls[i], LAMBDA x : ~IsCloseApproach(x))
Accepted(i) == SelectSeq(calls[i], IsCloseApproach)

\* C1: after any sequence of append calls with arbitrary arguments every element of
\* approaches is a CloseApproach, and a call whose argument is no CloseApproach
\* returns (it has no raising path) and leaves approaches, and every record, as
\* it was.
C1_OnlyApproaches ==
    [][/\ \A i \in 1..Len(neos') :
            \A k \in 1..Len(neos'[i]["approaches"].v) :
                IsCloseApproach(neos'[i]["approaches"].v[k])
       /\ \A i \in NeoIds : \A x \in AppendArgs :
            (DoAppend(i, x) /\ ~IsCloseApproach(x)) => neos' = neos /\ cas' = cas]_vars

C1_Witness ==
    \E i \in NeoIds : /\ Len(Rejected(i)) > 0
                      /\ Len(approaches(i)) > 0
                      /\ ~IsCloseApproach(calls[i][Len(calls[i])])

\* C2: approaches is the subsequence of the accepted arguments in call order, and
\* in every step the old approaches is a prefix of the new one.
C2_InsertionOrder ==
    /\ [](\A i \in NeoIds : approaches(i) = Accepted(i))
    /\ [][\A i \in NeoIds : IsPrefix(approaches(i), neos'[i]["approaches"].v)]_vars

C2_Witness ==
    \E i \in NeoIds : /\ Len(approaches(i)) = 2
                      /\ approaches(i)[1] # approaches(i)[2]
                      /\ approaches(i)[1] = CaRef(2)

\* ev.designation == obj.designation, as the caller evaluates it
SameDesignation(c, n) ==
    /\ Returned(designation(c))
    /\ Returned(GetAttr(n, "designation"))
    /\ designation(c).val = GetAttr(n, "designation").val

InApproaches(j, i) == \E k \in 1..Len(approaches(i)) : approaches(i)[k] = CaRef(j)

\* C3 as stated: after obj.append(ev); ev.neo = obj, ev is in obj.approaches,
\* ev.neo is obj and ev.designation equals obj.designation. (Stated here for the
\* records that have a designation at all.)
C3_LinkingAsStated ==
    [][\A i \in NeoIds : \A j \in CaIds :
          (/\ Link(i, j)
           /\ Returned(designation(cas[j]))
           /\ Returned(GetAttr(neos[i], "designation")))
                     => /\ \E k \in 1..Len(neos'[i]["approaches"].v) :
                              neos'[i]["approaches"].v[k] = CaRef(j)
                        /\ cas'[j]["neo"] = NeoRef(i)
                        /\ SameDesignation(cas'[j], neos'[i])]_vars

\* C3 as amended: after obj.append(ev); ev.neo = obj, ev is in obj.approaches and
\* ev.neo is obj; the two designations are what they were before (reading either
\* gives the same value or the same AttributeError), so they are equal afterwards
\* exactly when they were equal before.
C3_Linking ==
    [][\A i \in NeoIds : \A j \in CaIds :
          Link(i, j) => /\ \E k \in 1..Len(neos'[i]["approaches"].v) :
                              neos'[i]["approaches"].v[k] = CaRef(j)
                        /\ cas'[j]["neo"] = NeoRef(i)
                        /\ designation(cas'[j]) = designation(cas[j])
                        /\ GetAttr(neos'[i], "designation") = GetAttr(neos[i], "designation")
                        /\ SameDesignation(cas'[j], neos'[i]) <=> SameDesignation(cas[j], neos[i])]_vars

\* a linked pair whose designations differ, and one whose designations agree
C3_Witness ==
    /\ \E i \in NeoIds : \E j \in CaIds :
          /\ InApproaches(j, i) /\ cas[j]["neo"] = NeoRef(i)
          /\ ~SameDesignation(cas[j], neos[i])
    /\ \E i \in NeoIds : \E j \in CaIds :
          /\ InApproaches(j, i) /\ cas[j]["neo"] = NeoRef(i)
          /\ SameDesignation(cas[j], neos[i])

\* C10: the records never link themselves. A new CloseApproach has neo None and a
\* new NearEarthObject has no approaches; append changes only the approaches of the
\* object it is called on; and an approach's neo changes only in a step that is the
\* caller's assignment, its designation never.
C10_NoSelfLinking ==
    [][/\ Len(cas') > Len(cas) => cas'[Len(cas')]["neo"] = None
       /\ Len(neos') > Len(neos) => neos'[Len(neos')]["approaches"] = List(<<>>)
       /\ \A i \in NeoIds : \A x \in AppendArgs :
             DoAppend(i, x) =>
                /\ cas' = cas
                /\ \A k \in NeoIds \ {i} : neos'[k] = neos[k]
                /\ DOMAIN neos'[i] = DOMAIN neos[i]
                /\ \A a \in DOMAIN neos[i] \ {"approaches"} : neos'[i][a] = neos[i][a]
       /\ \A j \in CaIds :
             /\ cas'[j]["neo"] # cas[j]["neo"] =>
                   \/ \E x \in NeoValues : SetNeo(j, x)
                   \/ \E i \in NeoIds : Link(i, j)
             /\ designation(cas'[j]) = designation(cas[j])]_vars

\* an approach was appended to one of two objects and its neo is still None
C10_Witness ==
    /\ Len(neos) = 2
    /\ \E i \in NeoIds : \E j \in CaIds : InApproaches(j, i) /\ cas[j]["neo"] = None

----------------------------------------------------------------------------
(* Claims about construction and the reading operations, under SpecCtor *)

\* the value info carries for a field, whatever the case of its key
Carried(info, field) ==
    LET at == {k \in 1..Len(info) : lower(info[k][1]) = field}
    IN IF at = {} THEN Absent ELSE info[CHOOSE k \in at : \A m \in at : m <= k][2]

Mandatory(c) == IF c = "NearEarthObject" THEN {Kpdes} ELSE {Kdes, Kcd, Kdist, Kv_rel}

\* the raw values that denote a number, and the number each denotes
NumberOf(x) ==
    CASE x = Str(S034) -> Float(34, 2)
      [] x = Str(S05) -> Float(5, 1)
      [] x = Str(S7) -> Float(7, 0)
      [] OTHER -> Absent

\* C4 as stated: a construction whose mapping lacks a mandatory field (pdes; des,
\* cd, dist, v_rel) fails with an error and returns no instance.
C4_MissingFieldFails ==
    (inst1 # Pending /\ \E f \in Mandatory(cls) : Carried(info1, f) = Absent)
        => ~Returned(inst1)

\* C5 as stated: constructing a CloseApproach whose dist or v_rel is not coercible
\* to a float raises an error and returns no instance.
C5_MalformedNumberFails ==
    (/\ cls = "CloseApproach"
     /\ inst1 # Pending
     /\ \E f \in {Kdist, Kv_rel} : Carried(info1, f) # Absent /\ NumberOf(Carried(info1, f)) = Absent)
        => ~Returned(inst1)

\* C6 as stated: a constructed NearEarthObject has a boolean hazardous that is True
\* iff the pha token is "Y" or "y", and False for any other token or an absent pha.
C6_HazardFlag ==
    (cls = "NearEarthObject" /\ Returned(inst1))
        => GetAttr(inst1.val, "hazardous")
              = Return(Bool(Carried(info1, Kpha) \in {Str(<<"Y">>), Str(<<"y">>)}))

\* a mapping the loader may supply: a designation and a hazard token, a name that
\* is a string if present, a diameter that is numeric or empty if present
ValidNeoInfo(info) ==
    /\ Carried(info, Kpdes) # Absent
    /\ Carried(info, Kpha) # Absent
    /\ Carried(info, Kname) # None
    /\ Carried(info, Kdiameter) \in {Absent, Str(<<>>)} \/ NumberOf(Carried(info, Kdiameter)) # Absent

\* C7 as stated: for a valid mapping serialize() returns exactly the four keys, the
\* designation and a non-empty name as given, the diameter as the given number, an
\* empty or absent name as None and an empty or absent diameter as NaN.
C7_SerializeRoundTrip ==
    (cls = "NearEarthObject" /\ ret.op = "serialize" /\ ValidNeoInfo(info1))
        => ret.out = Return(Dict(
              [designation |-> Carried(info1, Kpdes),
               name |-> IF Carried(info1, Kname) \in {Absent, Str(<<>>)}
                        THEN None ELSE Carried(info1, Kname),
               diameter_km |-> IF Carried(info1, Kdiameter) \in {Absent, Str(<<>>)}
                               THEN NaN ELSE NumberOf(Carried(info1, Kdiameter)),
               potentially_hazardous |-> Bool(Carried(info1, Kpha) \in {Str(<<"Y">>), Str(<<"y">>)})]))

\* C8 as stated: with a name, fullname is the designation, a space and the name in
\* parentheses; with name None it is the designation.
C8_FullnameAsStated ==
    (/\ cls = "NearEarthObject" /\ ret.op = "fullname"
     /\ Carried(info1, Kpdes) # Absent /\ Carried(info1, Kname) # Absent)
        => ret.out = IF Carried(info1, Kname) = Str(<<>>)
                     THEN Return(Carried(info1, Kpdes))
                     ELSE Return(Str(Carried(info1, Kpdes).v \o <<" ", "(">>
                                     \o Carried(info1, Kname).v \o <<")">>))

\* C8 as amended: with a name, fullname is the designation, a space and the name in
\* parentheses, the whole enclosed in single quotes; with name None it is exactly
\* the designation. An instance built without pdes or without a name field lacks
\* the attribute, and fullname raises AttributeError.
C8_Fullname ==
    (cls = "NearEarthObject" /\ ret.op = "fullname")
        => ret.out = IF Carried(info1, Kpdes) = Absent \/ Carried(info1, Kname) = Absent
                     THEN Raise("AttributeError")
                     ELSE IF Carried(info1, Kname) = Str(<<>>)
                          THEN Return(Carried(info1, Kpdes))
                          ELSE Return(Str(<<"'">> \o Carried(info1, Kpdes).v \o <<" ", "(">>
                                          \o Carried(info1, Kname).v \o <<")", "'">>))

\* the example of the claim: 433 with name Eros gives the 12 characters '433 (Eros)'
C8_Witness ==
    /\ cls = "NearEarthObject" /\ ret.op = "fullname"
    /\ Carried(info1, Kpdes) = Str(S433) /\ Carried(info1, Kname) = Str(SEros)
    /\ ret.out = Return(Str(<<"'","4","3","3"," ","(","E","r","o","s",")","'">>))
    /\ Len(ret.out.val.v) = 12

\* the recognized items of a mapping, keys in lower case, in the order given
Recognized(c, info) ==
    LET keep == SelectSeq(info, LAMBDA it : lower(it[1]) \in Fields(c))
    IN [k \in 1..Len(keep) |-> <<lower(keep[k][1]), keep[k][2]>>]

\* C9: two constructions whose mappings carry the same recognized field values and
\* differ in the case of the keys and in unrecognized keys (approaches and neo among
\* them) have the same outcome: the same attributes with the same values, approaches
\* empty and neo None.
C9_KeysCaseInsensitive ==
    (inst2 # Pending /\ Recognized(cls, info1) = Recognized(cls, info2))
        => /\ inst2 = inst1
           /\ (Returned(inst2) /\ cls = "NearEarthObject") => inst2.val["approaches"] = List(<<>>)
           /\ (Returned(inst2) /\ cls = "CloseApproach") => inst2.val["neo"] = None

C9_Witness ==
    /\ Returned(inst2)
    /\ Len(info1) >= 2
    /\ Len(info2) > Len(info1)
    /\ \E k \in 1..Len(info2) : info2[k][1] = upper(Kpdes) \/ info2[k][1] = upper(Kdes)
    /\ \E k \in 1..Len(info2) : info2[k][1] \in {Kneo, Kapproaches}
    /\ DOMAIN inst2.val # {"approaches"} /\ DOMAIN inst2.val # {"neo"}

====
